---------------------------- MODULE Spec2Model ----------------------------
(***************************************************************************)
(* Model of the scroll-driven 3D scene (class FarmbridgeVisualization) and *)
(* of its host page: the frame scheduler, the scroll / resize /            *)
(* visibility / teardown signals and the public pause, resume and destroy  *)
(* methods.                                                                *)
(*                                                                         *)
(* Numbers.  The source computes in floating point; the model computes in  *)
(* fixed point:                                                            *)
(*   - lengths, velocities and object rotations in units of 0.0001         *)
(*     (100 is 1000000, the gravity decrement 0.0001 is 1);                *)
(*   - scrollProgress in thousandths (1 is 1000);                          *)
(*   - camera rotation in thousandths of pi;                               *)
(*   - sines and cosines in units of 0.0001, of angles given in            *)
(*     thousandths of a turn, at the multiples of an eighth of a turn.     *)
(***************************************************************************)
EXTENDS Integers, Sequences, FiniteSets

\* ------------------------------------------------------------------ bounds

\* Number of particles of the field (config.particleCount is 500 or 1000).
NumParticles == 1

\* Cap on the number of animate() calls, each of which requests one frame.
MaxFrames == 2

\* Cap on the number of scroll events delivered.
MaxScrolls == 1

\* Cap on the number of scroll events of the camera-rig specification.
MaxRigScrolls == 2

\* Cap on the number of animate() calls of the render-loop specification.
MaxLoopFrames == 5

\* Cap on the number of calls of API.request.
MaxCalls == 1

\* The clock of the storage specification runs from 0 to MaxClock minutes.
MaxClock == 3

\* Cap on the number of EventManager.on calls.
MaxHandlers == 3

\* ------------------------------------------------------- program constants

\* Half the side of the bounding box, 100.
BoxLimit == 1000000

\* The constant decrement of the vertical velocity, 0.0001.
Gravity == 1

\* config.cameraDistance, 100.
CameraDistance == 1000000

\* minZoom, 50, and maxZoom, 150.
MinZoom == 500000

MaxZoom == 1500000

\* CONFIG.maxRetries.
MaxRetries == 3

\* ------------------------------------------------------------ environment

\* Window sizes <<innerWidth, innerHeight>> the host may take.
Viewports == {<<800, 600>>, <<400, 300>>}

\* Scrollable overflow of the document: scrollHeight - innerHeight.
Overflows == {0, 400}

\* Scroll offsets window.scrollY may hold when the listener runs: offsets
\* within the scrollable overflow and, while the page is pulled beyond its top
\* (elastic overscroll), a negative one.  The listener reads the offset as the
\* host gives it.
ScrollOffsets(overflow) == {y \in {-100, 0, 100, 400} : y <= overflow}

\* Particles as createParticles may draw them: positions in [-100, 100),
\* velocity components in [-0.025, 0.025).
InitialParticles ==
  { [pos |-> <<0, 0, 0>>,                   vel |-> <<100, 50, -100>>],
    [pos |-> <<999900, -1000000, 0>>,       vel |-> <<200, -200, 100>>],
    [pos |-> <<-999950, 999900, 999999>>,   vel |-> <<-249, 249, 1>>] }

\* The steps of init() that may throw; "none" is a run without a throw.
SetupSteps ==
  << "setupScene", "setupCamera", "setupRenderer", "setupLighting",
     "createParticles", "createGeometries", "setupEventListeners",
     "setupScrollListener" >>

\* Where a call of animate() may throw: in updateParticles or in render.
FrameFaults == {"none", "update", "render"}

InitFaults ==
  {"none"} \cup {SetupSteps[i] : i \in 1..Len(SetupSteps)}
           \cup {"animate.update", "animate.render"}

VARIABLES
  constructed,     \* the DOMContentLoaded handler has run the constructor
  webglSupported,  \* what isWebGLSupported() returned
  initFault,       \* the step of init() that threw, or "none"
  viewport,        \* <<window.innerWidth, window.innerHeight>>
  hidden,          \* document.hidden
  listeners,       \* the events a handler of this script is subscribed to
  scene,           \* this.scene
  camera,          \* this.camera
  renderer,        \* this.renderer and its canvas
  particleSystem,  \* this.particleSystem
  positions,       \* the position attribute: one <<x, y, z>> per particle
  velocities,      \* this.particleVelocities
  torus,           \* this.torus (the ring)
  octahedron,      \* this.octahedron (the solid)
  cube,            \* this.cube
  scrollProgress,  \* this.scrollProgress
  initialized,     \* this.initialized
  animationId,     \* this.animationId, 0 for null
  pendingFrames,   \* the frame requests the host holds
  nextFrameId,     \* the id the next requestAnimationFrame returns
  fallbackPanels,  \* number of fallback panels mounted
  disposed,        \* the resources dispose() was called on
  renderCalls,     \* number of renderer.render calls
  scrolls,         \* number of scroll events delivered
  lastScroll,      \* the geometry the last scroll handler read
  lifecycle,       \* the state of the life cycle of section 4.6
  pauseSnap,       \* the scene state when the instance was last paused
  api,             \* the call of API.request in progress, or the last one
  storage,         \* localStorage, the clock and what Storage was asked
  registry         \* EventManager.listeners and the listeners of the DOM

\* The variables of the visualization.
vizVars ==
  << constructed, webglSupported, initFault, viewport, hidden, listeners,
     scene, camera, renderer, particleSystem, positions, velocities, torus,
     octahedron, cube, scrollProgress, initialized, animationId,
     pendingFrames, nextFrameId, fallbackPanels, disposed, renderCalls,
     scrolls, lastScroll, lifecycle, pauseSnap >>

vars ==
  << api, storage, registry, constructed, webglSupported, initFault, viewport, hidden, listeners,
     scene, camera, renderer, particleSystem, positions, velocities, torus,
     octahedron, cube, scrollProgress, initialized, animationId,
     pendingFrames, nextFrameId, fallbackPanels, disposed, renderCalls,
     scrolls, lastScroll, lifecycle, pauseSnap >>

\* ---------------------------------------------------------------- helpers

Abs(x) == IF x < 0 THEN -x ELSE x

\* Division rounding toward zero.
TruncDiv(a, b) == IF a >= 0 THEN a \div b ELSE -((-a) \div b)

\* Math.sin of t thousandths of a turn.
SinTurn(t) ==
  LET a == (t % 1000) \div 125
  IN  CASE a \in {0, 4} -> 0
        [] a \in {1, 3} -> 7071
        [] a = 2        -> 10000
        [] a \in {5, 7} -> -7071
        [] a = 6        -> -10000

\* Math.cos of t thousandths of a turn.
CosTurn(t) == SinTurn(t + 250)

\* --------------------------------------------------------------- objects

NoCamera ==
  [created |-> FALSE, aspect |-> <<0, 0>>, rx |-> 0, ry |-> 0,
   px |-> 0, py |-> 0, pz |-> 0]

NoMesh == [created |-> FALSE, px |-> 0, py |-> 0, pz |-> 0,
           rx |-> 0, ry |-> 0, rz |-> 0]

NoScene == [created |-> FALSE, children |-> {}]

NoRenderer == [state |-> "null", size |-> <<0, 0>>, canvasMounted |-> FALSE]

NoPoints == [created |-> FALSE, rx |-> 0, ry |-> 0]

NoSnap == [valid |-> FALSE, since |-> "other", positions |-> <<>>,
           velocities |-> <<>>, points |-> NoPoints, torus |-> NoMesh,
           octahedron |-> NoMesh, cube |-> NoMesh, camera |-> NoCamera]

\* The objects of the scene that own a geometry and a material.
Meshes == {"particleSystem", "torus", "octahedron", "cube"}

Lights == {"ambientLight", "directionalLight", "pointLight"}

Geometry(obj) == <<obj, "geometry">>

Material(obj) == <<obj, "material">>

\* setupCamera: a perspective camera at z = config.cameraDistance.
NewCamera(vp) ==
  [created |-> TRUE, aspect |-> vp, rx |-> 0, ry |-> 0,
   px |-> 0, py |-> 0, pz |-> CameraDistance]

\* setupRenderer: a renderer of the window's size, its canvas in the page.
NewRenderer(vp) == [state |-> "live", size |-> vp, canvasMounted |-> TRUE]

\* createGeometries: the ring at (0, 0, -50).
NewTorus == [NoMesh EXCEPT !.created = TRUE, !.pz = -500000]

\* createGeometries: the solid at (-60, 40, -100).
NewOctahedron ==
  [NoMesh EXCEPT !.created = TRUE, !.px = -600000, !.py = 400000,
                 !.pz = -1000000]

\* createGeometries: the cube at (60, -20, -80).
NewCube ==
  [NoMesh EXCEPT !.created = TRUE, !.px = 600000, !.py = -200000,
                 !.pz = -800000]

\* ------------------------------------------------------------ scroll rules

\* The scroll listener's progress: scrollY / scrollHeight, or 0.
ScrollRatio(scrollY, docHeight, innerHeight) ==
  LET scrollHeight == docHeight - innerHeight
  IN  IF scrollHeight > 0 THEN (scrollY * 1000) \div scrollHeight ELSE 0

\* A camera rig that zooms the wrong way: out as the page scrolls down.
UpdateCameraZoomReversed(cam, sp) ==
  [cam EXCEPT
     !.rx = (sp * 2 * 3) \div 10,
     !.ry = (sp * 2 * 5) \div 10,
     !.pz = MinZoom + ((MaxZoom - MinZoom) * sp) \div 1000,
     !.px = SinTurn(sp) * 20,
     !.py = CosTurn(sp) * 20]

\* A camera rig with the sine and the cosine of the position shift swapped.
UpdateCameraShiftSwapped(cam, sp) ==
  [cam EXCEPT
     !.rx = (sp * 2 * 3) \div 10,
     !.ry = (sp * 2 * 5) \div 10,
     !.pz = MinZoom + ((MaxZoom - MinZoom) * (1000 - sp)) \div 1000,
     !.px = CosTurn(sp) * 20,
     !.py = SinTurn(sp) * 20]

\* updateCameraOnScroll.
UpdateCameraOnScroll(cam, sp) ==
  [cam EXCEPT
     !.rx = (sp * 2 * 3) \div 10,
     !.ry = (sp * 2 * 5) \div 10,
     !.pz = MinZoom + ((MaxZoom - MinZoom) * (1000 - sp)) \div 1000,
     !.px = SinTurn(sp) * 20,
     !.py = CosTurn(sp) * 20]

\* updateParallax, the ring: parallaxIntensity is 0.5.
ParallaxTorus(t, sp) ==
  IF t.created
  THEN [t EXCEPT !.py = (SinTurn(2 * sp) * 30) \div 2,
                 !.px = (CosTurn((3 * sp) \div 2) * 20) \div 2]
  ELSE t

\* updateParallax, the solid: eased by 0.1 toward progress * 100.
ParallaxOctahedron(o, sp) ==
  IF o.created
  THEN [o EXCEPT !.py = o.py + TruncDiv(sp * 1000 - o.py, 10),
                 !.rx = o.rx + 30,
                 !.ry = o.ry + 50]
  ELSE o

\* updateParallax, the cube.
ParallaxCube(c, sp) ==
  IF c.created
  THEN [c EXCEPT !.py = -500000 + sp * 1000,
                 !.rx = c.rx + 20,
                 !.rz = c.rz + 40]
  ELSE c

\* ------------------------------------------------------------- frame tick

\* One axis of one particle in updateParticles: move, bounce, and on the
\* vertical axis (g = Gravity) fall.
StepAxis(p, v, g) ==
  LET p1 == p + v
      v1 == IF Abs(p1) > BoxLimit THEN -v ELSE v
  IN  [p |-> p1, v |-> v1 - g]

StepParticle(pos, vel) ==
  LET x == StepAxis(pos[1], vel[1], 0)
      y == StepAxis(pos[2], vel[2], Gravity)
      z == StepAxis(pos[3], vel[3], 0)
  IN  [pos |-> <<x.p, y.p, z.p>>, vel |-> <<x.v, y.v, z.v>>]

\* updateParticles over the whole field.
UpdateParticles(ps, pos, vel) ==
  IF ~ps.created
  THEN [pos |-> pos, vel |-> vel]
  ELSE [pos |-> [i \in DOMAIN pos |-> StepParticle(pos[i], vel[i]).pos],
        vel |-> [i \in DOMAIN pos |-> StepParticle(pos[i], vel[i]).vel]]

\* The part of the state animate() reads and writes.
FrameState ==
  [animationId |-> animationId, pendingFrames |-> pendingFrames,
   nextFrameId |-> nextFrameId, particleSystem |-> particleSystem,
   positions |-> positions, velocities |-> velocities, torus |-> torus,
   renderCalls |-> renderCalls]

\* requestAnimationFrame(() => this.animate()), stored in animationId.
RequestFrame(f) ==
  [f EXCEPT !.animationId = f.nextFrameId,
            !.pendingFrames = f.pendingFrames \cup {f.nextFrameId},
            !.nextFrameId = f.nextFrameId + 1]

\* A loop that requests the next frame last: a throw ends the call before
\* the request is made.
AnimateStopsOnThrow(f, fault) ==
  LET up == UpdateParticles(f.particleSystem, f.positions, f.velocities)
      f2 == [f EXCEPT
               !.positions = up.pos,
               !.velocities = up.vel,
               !.torus = IF f.torus.created
                         THEN [f.torus EXCEPT !.rx = @ + 10, !.ry = @ + 20]
                         ELSE f.torus,
               !.particleSystem =
                  IF f.particleSystem.created
                  THEN [f.particleSystem EXCEPT !.rx = @ + 1, !.ry = @ + 2]
                  ELSE f.particleSystem]
  IN  CASE fault = "update" -> f
        [] fault = "render" -> f2
        [] OTHER            -> RequestFrame([f2 EXCEPT !.renderCalls = @ + 1])

\* animate(): request the next frame, update the particles, rotate the ring
\* and the particle system, render.  A throw ends the call where it happens.
Animate(f, fault) ==
  LET f1 == RequestFrame(f)
      up == UpdateParticles(f1.particleSystem, f1.positions, f1.velocities)
      f2 == [f1 EXCEPT
               !.positions = up.pos,
               !.velocities = up.vel,
               !.torus = IF f1.torus.created
                         THEN [f1.torus EXCEPT !.rx = @ + 10, !.ry = @ + 20]
                         ELSE f1.torus,
               !.particleSystem =
                  IF f1.particleSystem.created
                  THEN [f1.particleSystem EXCEPT !.rx = @ + 1, !.ry = @ + 2]
                  ELSE f1.particleSystem]
  IN  CASE fault = "update" -> f1
        [] fault = "render" -> f2
        [] OTHER            -> [f2 EXCEPT !.renderCalls = @ + 1]

\* The state takes the values of f.
SetFrameState(f) ==
  /\ animationId' = f.animationId
  /\ pendingFrames' = f.pendingFrames
  /\ nextFrameId' = f.nextFrameId
  /\ particleSystem' = f.particleSystem
  /\ positions' = f.positions
  /\ velocities' = f.velocities
  /\ torus' = f.torus
  /\ renderCalls' = f.renderCalls

\* pause(): cancel the frame request animationId names, if any.
CancelFrame(f) ==
  IF f.animationId # 0
  THEN [f EXCEPT !.pendingFrames = f.pendingFrames \ {f.animationId}]
  ELSE f

\* resume() without its test of this.initialized.
ResumeFrameUnguarded(f, fault) == Animate(f, fault)

\* resume(): animate() when initialized.
ResumeFrame(f, fault) == IF initialized THEN Animate(f, fault) ELSE f

\* The scene state a pause is to freeze.
SceneSnap ==
  [valid |-> TRUE, since |-> "pause", positions |-> positions,
   velocities |-> velocities, points |-> particleSystem, torus |-> torus,
   octahedron |-> octahedron, cube |-> cube, camera |-> camera]

\* The life cycle after pause() and after resume().
PausedFrom(l) == IF l = "ACTIVE" THEN "PAUSED" ELSE l

ResumedFrom(l) == IF l = "PAUSED" /\ initialized THEN "ACTIVE" ELSE l

\* What has happened since the snapshot: "pause" (nothing), "resume" (a
\* resume and nothing else) or "other".
\* The snapshot is kept while the instance is PAUSED and through a resume that
\* directly follows the pause, and dropped otherwise.
Disturb(s, l) ==
  IF s.valid /\ l = "PAUSED" THEN [s EXCEPT !.since = "other"] ELSE NoSnap

Resumed(s) ==
  IF s.valid /\ s.since = "pause" THEN [s EXCEPT !.since = "resume"]
  ELSE NoSnap

\* ------------------------------------------------------------ API.request

\* The data argument: none, an object JSON.stringify accepts, or one it
\* throws on.
DataKinds == {"none", "plain", "cyclic"}

\* Parsed bodies of ok responses.
Bodies == {"b1", "b2"}

\* How a fetch and the reading of its response end: an ok response with a
\* body that parses, a rejected fetch, a non-ok status, a body that does not
\* parse.
FetchOutcomes ==
  {[kind |-> "ok", val |-> b] : b \in Bodies}
    \cup {[kind |-> "network", val |-> "TypeError"],
          [kind |-> "status", val |-> "HTTP 500"],
          [kind |-> "parse", val |-> "SyntaxError"]}

\* No call of API.request has been made.
NoCall ==
  [pc |-> "idle", data |-> "none", retries |-> 0, fetches |-> 0,
   log |-> << >>, result |-> << >>, error |-> << >>, calls |-> 0]

\* The try block: stringify the data if there is any, fetch, reject a non-ok
\* response, parse the body.
TryBlock(data, outcome) ==
  IF data = "cyclic"
  THEN [kind |-> "stringify", val |-> "TypeError", fetched |-> FALSE]
  ELSE [kind |-> outcome.kind, val |-> outcome.val, fetched |-> TRUE]

\* A catch block that retries once more than CONFIG.maxRetries allows.
CatchBlockOneMore(a, err) ==
  IF a.retries <= MaxRetries
  THEN [a EXCEPT !.pc = "waiting"]
  ELSE [a EXCEPT !.pc = "threw", !.error = err]

\* The catch block: wait for the retry delay while retries remain, else
\* rethrow.
CatchBlock(a, err) ==
  IF a.retries < MaxRetries
  THEN [a EXCEPT !.pc = "waiting"]
  ELSE [a EXCEPT !.pc = "threw", !.error = err]

\* One pass through the body of request: the try block, and the catch block
\* if it threw.  Results and errors carry the number of the attempt.
RequestAttempt(a, outcome) ==
  LET t  == TryBlock(a.data, outcome)
      n  == Len(a.log) + 1
      a1 == [a EXCEPT !.log = Append(@, [kind |-> t.kind, val |-> t.val]),
                      !.fetches = IF t.fetched THEN @ + 1 ELSE @]
  IN  IF t.kind = "ok"
      THEN [a1 EXCEPT !.pc = "returned", !.result = << n, t.val >>]
      ELSE CatchBlock(a1, << n, t.kind >>)

\* return API.request(method, endpoint, data, retries + 1).
RetryCall(a) == [a EXCEPT !.pc = "fetching", !.retries = @ + 1]

\* ---------------------------------------------------------------- Storage

\* Keys of localStorage and values the page stores.
StorageKeys == {"k1", "k2"}

StoredValues == {"v1", "v2"}

\* The expiryMinutes argument: 0 for none (null, the default), or minutes.
ExpiryMinutes == {0, 1, 2}

\* localStorage.getItem of a key that is not stored.
NoItem == {}

\* JSON.stringify of { value } or { value, expiry }: the text as its set of
\* members.
Stringify(data) ==
  {<< "value", data.value >>}
    \cup (IF data.expiry # 0 THEN {<< "expiry", data.expiry >>} ELSE {})

\* The member of a parsed text, 0 (undefined) if it has none.
Member(text, name) ==
  IF \E m \in text : m[1] = name
  THEN (CHOOSE m \in text : m[1] = name)[2]
  ELSE 0

\* JSON.parse of a stored text.
Parse(text) ==
  [value |-> Member(text, "value"), expiry |-> Member(text, "expiry")]

\* Storage.set at time now (Date.now(), in minutes).
StorageSet(items, now, key, value, expiryMinutes) ==
  LET data == [value |-> value,
               expiry |-> IF expiryMinutes # 0 THEN now + expiryMinutes
                          ELSE 0]
  IN  [items EXCEPT ![key] = Stringify(data)]

\* Storage.remove.
StorageRemove(items, key) == [items EXCEPT ![key] = NoItem]

\* An expiry test that also expires an entry at its expiry time.
ExpiredAtExpiry(data, now) == data.expiry # 0 /\ now >= data.expiry

\* data.expiry && Date.now() > data.expiry.
Expired(data, now) == data.expiry # 0 /\ now > data.expiry

\* Storage.get at time now: the value returned and the items it leaves.
StorageGet(items, now, key) ==
  LET item == items[key]
  IN  IF item = NoItem
      THEN [result |-> "null", items |-> items]
      ELSE IF Expired(Parse(item), now)
           THEN [result |-> "null", items |-> StorageRemove(items, key)]
           ELSE [result |-> Parse(item).value, items |-> items]

\* No set and no read of a key yet.
NoWrite == [value |-> "null", minutes |-> 0, at |-> 0, made |-> FALSE]

NoRead == [key |-> "none", result |-> "null"]

\* An empty localStorage at time 0.  written is the last set of each key
\* since its last remove, nulled the keys a read has returned null for since
\* their last set, last the read just made.
NoStorage ==
  [items |-> [k \in StorageKeys |-> NoItem], clock |-> 0,
   written |-> [k \in StorageKeys |-> NoWrite], nulled |-> {},
   last |-> NoRead]

\* ----------------------------------------------------------- EventManager

\* Targets of the page and their id, as a sequence of tokens; document and
\* window have none.
Elements == {"menuToggle", "document", "window"}

\* A target that was not found in the page.
NullElement == "null"

ElementId(element) == IF element = "menuToggle" THEN << "menu" >> ELSE << >>

EventTypes == {"click", "blur"}

\* `${element.id || 'unnamed'}-${event}`.
ListenerKey(element, event) ==
  (IF ElementId(element) # << >> THEN ElementId(element) ELSE << "unnamed" >>)
    \o << "-" >> \o << event >>

ListenerKeys == {ListenerKey(el, ev) : el \in Elements, ev \in EventTypes}

\* listeners.get of a key that is not in the map.
NoListener == [element |-> "none", event |-> "none", handler |-> 0]

\* No listener attached: dom is the set of listeners the elements hold,
\* listeners the map, handlers the number of handler functions created,
\* wrappers those of them that delegate made.
NoRegistry ==
  [dom |-> {}, listeners |-> [k \in ListenerKeys |-> NoListener],
   handlers |-> 0, wrappers |-> {}]

\* EventManager.on with a new handler function.
EventOn(reg, element, event) ==
  IF element = NullElement THEN reg
  ELSE LET h == reg.handlers + 1
       IN  [reg EXCEPT
              !.dom = @ \cup {<< element, event, h >>},
              !.listeners[ListenerKey(element, event)] =
                 [element |-> element, event |-> event, handler |-> h],
              !.handlers = h]

\* EventManager.delegate: on with a new function that wraps the handler.
EventDelegate(reg, parent, event) ==
  IF parent = NullElement THEN reg
  ELSE [EventOn(reg, parent, event) EXCEPT
          !.wrappers = @ \cup {reg.handlers + 1}]

\* EventManager.off.
EventOff(reg, element, event) ==
  IF element = NullElement THEN reg
  ELSE LET key      == ListenerKey(element, event)
           listener == reg.listeners[key]
       IN  IF listener = NoListener THEN reg
           ELSE [reg EXCEPT
                   !.dom = @ \ {<< listener.element, event,
                                   listener.handler >>},
                   !.listeners[key] = NoListener]

\* ------------------------------------------------------------------- Init

Init ==
  /\ api = NoCall
  /\ storage = NoStorage
  /\ registry = NoRegistry
  /\ constructed = FALSE
  /\ webglSupported \in BOOLEAN
  /\ initFault = "none"
  /\ viewport = <<800, 600>>
  /\ hidden = FALSE
  /\ listeners = {"DOMContentLoaded", "beforeunload"}
  /\ scene = NoScene
  /\ camera = NoCamera
  /\ renderer = NoRenderer
  /\ particleSystem = NoPoints
  /\ positions = <<>>
  /\ velocities = <<>>
  /\ torus = NoMesh
  /\ octahedron = NoMesh
  /\ cube = NoMesh
  /\ scrollProgress = 0
  /\ initialized = FALSE
  /\ animationId = 0
  /\ pendingFrames = {}
  /\ nextFrameId = 1
  /\ fallbackPanels = 0
  /\ disposed = {}
  /\ renderCalls = 0
  /\ scrolls = 0
  /\ lastScroll = [seen |-> FALSE, scrollY |-> 0, overflow |-> 0]
  /\ lifecycle = "UNINITIALIZED"
  /\ pauseSnap = NoSnap


\* ------------------------------------------------------------------ init()

SetupIndex(step) == CHOOSE i \in 1..Len(SetupSteps) : SetupSteps[i] = step

\* Whether init() completed `step` when its run threw at `fault`.
StepDone(step, fault) ==
  \/ fault \in {"none", "animate.update", "animate.render"}
  \/ SetupIndex(step) < SetupIndex(fault)

\* The fault of the first animate() call of an init() that threw at `fault`.
FirstFrameFault(fault) ==
  CASE fault = "animate.update" -> "update"
    [] fault = "animate.render" -> "render"
    [] OTHER                    -> "none"

\* setupScene, and what setupLighting, createParticles and createGeometries
\* add to the scene.
BuiltScene(fault) ==
  IF StepDone("setupScene", fault)
  THEN [created |-> TRUE,
        children |->
          (IF StepDone("setupLighting", fault) THEN Lights ELSE {})
          \cup (IF StepDone("createParticles", fault)
                THEN {"particleSystem"} ELSE {})
          \cup (IF StepDone("createGeometries", fault)
                THEN {"torus", "octahedron", "cube"} ELSE {})]
  ELSE NoScene

\* setupEventListeners and setupScrollListener.
BuiltListeners(fault) ==
  (IF StepDone("setupEventListeners", fault)
   THEN {"resize", "visibilitychange"} ELSE {})
  \cup (IF StepDone("setupScrollListener", fault) THEN {"scroll"} ELSE {})

\* handleWebGLFallback: one more panel in the container.
HandleWebGLFallback(n) == n + 1

\* The state init() leaves when WebGL is supported: the setup steps up to
\* the one that throws, then initialized = true and the first animate().
InitSupported(fault, ps) ==
  LET made == StepDone("createParticles", fault)
      geo  == StepDone("createGeometries", fault)
      f0   == [FrameState EXCEPT
                 !.particleSystem =
                    IF made THEN [NoPoints EXCEPT !.created = TRUE]
                    ELSE NoPoints,
                 !.positions =
                    IF made THEN [i \in 1..NumParticles |-> ps[i].pos]
                    ELSE <<>>,
                 !.velocities =
                    IF made THEN [i \in 1..NumParticles |-> ps[i].vel]
                    ELSE <<>>,
                 !.torus = IF geo THEN NewTorus ELSE NoMesh]
      ran  == StepDone("setupScrollListener", fault)
  IN  /\ scene' = BuiltScene(fault)
      /\ camera' = IF StepDone("setupCamera", fault)
                   THEN NewCamera(viewport) ELSE NoCamera
      /\ renderer' = IF StepDone("setupRenderer", fault)
                     THEN NewRenderer(viewport) ELSE NoRenderer
      /\ octahedron' = IF geo THEN NewOctahedron ELSE NoMesh
      /\ cube' = IF geo THEN NewCube ELSE NoMesh
      /\ listeners' = listeners \cup BuiltListeners(fault)
      /\ initialized' = ran
      /\ SetFrameState(IF ran THEN Animate(f0, FirstFrameFault(fault)) ELSE f0)
      /\ fallbackPanels' = IF fault = "none" THEN fallbackPanels
                           ELSE HandleWebGLFallback(fallbackPanels)
      /\ lifecycle' = IF fault = "none" THEN "ACTIVE" ELSE "FALLBACK"

\* The state init() leaves when WebGL is not supported.
InitUnsupported ==
  /\ fallbackPanels' = HandleWebGLFallback(fallbackPanels)
  /\ lifecycle' = "FALLBACK"
  /\ UNCHANGED << scene, camera, renderer, particleSystem, positions,
                  velocities, torus, octahedron, cube, listeners,
                  initialized, animationId, pendingFrames, nextFrameId,
                  renderCalls >>

\* DOMContentLoaded: window.farmbridgeViz = new FarmbridgeVisualization().
Construct(fault, ps) ==
  /\ ~constructed
  /\ "DOMContentLoaded" \in listeners
  /\ constructed' = TRUE
  /\ initFault' = IF webglSupported THEN fault ELSE "none"
  /\ IF webglSupported THEN InitSupported(fault, ps) ELSE InitUnsupported
  /\ UNCHANGED << api, storage, registry, webglSupported, viewport, hidden, scrollProgress, disposed,
                  scrolls, lastScroll, pauseSnap >>

\* ----------------------------------------------------------------- events

\* The listener of setupScrollListener, run for a scroll event.
ScrollHandler(overflow, scrollY) ==
  /\ "scroll" \in listeners
  /\ LET sp == ScrollRatio(scrollY, viewport[2] + overflow, viewport[2])
     IN  /\ scrollProgress' = sp
         /\ camera' = UpdateCameraOnScroll(camera, sp)
         /\ torus' = ParallaxTorus(torus, sp)
         /\ octahedron' = ParallaxOctahedron(octahedron, sp)
         /\ cube' = ParallaxCube(cube, sp)
  /\ scrolls' = scrolls + 1
  /\ lastScroll' = [seen |-> TRUE, scrollY |-> scrollY, overflow |-> overflow]
  /\ pauseSnap' = Disturb(pauseSnap, lifecycle)
  /\ UNCHANGED << api, storage, registry, constructed, webglSupported, initFault, viewport, hidden,
                  listeners, scene, renderer, particleSystem, positions,
                  velocities, initialized, animationId, pendingFrames,
                  nextFrameId, fallbackPanels, disposed, renderCalls,
                  lifecycle >>

\* A scroll event.
Scroll(overflow, scrollY) ==
  /\ scrolls < MaxScrolls
  /\ ScrollHandler(overflow, scrollY)

\* onWindowResize.
OnWindowResize(cam, vp) == [cam EXCEPT !.aspect = vp]

\* The window takes the size vp; the resize listener, if any, runs.
Resize(vp) ==
  /\ vp # viewport
  /\ viewport' = vp
  /\ IF "resize" \in listeners
     THEN /\ camera' = OnWindowResize(camera, vp)
          /\ renderer' = [renderer EXCEPT !.size = vp]
     ELSE UNCHANGED << camera, renderer >>
  /\ pauseSnap' = Disturb(pauseSnap, lifecycle)
  /\ UNCHANGED << api, storage, registry, constructed, webglSupported, initFault, hidden, listeners,
                  scene, particleSystem, positions, velocities, torus,
                  octahedron, cube, scrollProgress, initialized, animationId,
                  pendingFrames, nextFrameId, fallbackPanels, disposed,
                  renderCalls, scrolls, lastScroll, lifecycle >>

\* The host delivers the frame request id: the callback calls animate().
\* A hidden page delivers no frame.
FrameCallback(id, fault) ==
  /\ id \in pendingFrames
  /\ ~hidden
  /\ SetFrameState(
       Animate([FrameState EXCEPT !.pendingFrames = pendingFrames \ {id}],
               fault))
  /\ pauseSnap' = Disturb(pauseSnap, lifecycle)
  /\ UNCHANGED << api, storage, registry, constructed, webglSupported, initFault, viewport, hidden,
                  listeners, scene, camera, renderer, octahedron, cube,
                  scrollProgress, initialized, fallbackPanels, disposed,
                  scrolls, lastScroll, lifecycle >>

\* The host runs a pending frame request.
Frame(id, fault) ==
  /\ nextFrameId <= MaxFrames
  /\ FrameCallback(id, fault)

\* pause().
Pause ==
  /\ constructed
  /\ SetFrameState(CancelFrame(FrameState))
  /\ lifecycle' = PausedFrom(lifecycle)
  /\ pauseSnap' = IF lifecycle = "ACTIVE" THEN SceneSnap
                  ELSE Disturb(pauseSnap, PausedFrom(lifecycle))
  /\ UNCHANGED << api, storage, registry, constructed, webglSupported, initFault, viewport, hidden,
                  listeners, scene, camera, renderer, octahedron, cube,
                  scrollProgress, initialized, fallbackPanels, disposed,
                  scrolls, lastScroll >>

\* resume().
Resume(fault) ==
  /\ constructed
  /\ nextFrameId <= MaxFrames
  /\ SetFrameState(ResumeFrame(FrameState, fault))
  /\ lifecycle' = ResumedFrom(lifecycle)
  /\ pauseSnap' = Resumed(pauseSnap)
  /\ UNCHANGED << api, storage, registry, constructed, webglSupported, initFault, viewport, hidden,
                  listeners, scene, camera, renderer, octahedron, cube,
                  scrollProgress, initialized, fallbackPanels, disposed,
                  scrolls, lastScroll >>

\* The page becomes hidden or visible; onVisibilityChange, if subscribed,
\* pauses or resumes.
VisibilityChange(fault) ==
  /\ hidden' = ~hidden
  /\ IF "visibilitychange" \in listeners
     THEN IF hidden'
          THEN /\ SetFrameState(CancelFrame(FrameState))
               /\ lifecycle' = PausedFrom(lifecycle)
               /\ pauseSnap' = IF lifecycle = "ACTIVE" THEN SceneSnap
                               ELSE Disturb(pauseSnap, PausedFrom(lifecycle))
          ELSE /\ nextFrameId <= MaxFrames
               /\ SetFrameState(ResumeFrame(FrameState, fault))
               /\ lifecycle' = ResumedFrom(lifecycle)
               /\ pauseSnap' = Resumed(pauseSnap)
     ELSE UNCHANGED << animationId, pendingFrames, nextFrameId,
                       particleSystem, positions, velocities, torus,
                       renderCalls, lifecycle, pauseSnap >>
  /\ UNCHANGED << api, storage, registry, constructed, webglSupported, initFault, viewport,
                  listeners, scene, camera, renderer, octahedron, cube,
                  scrollProgress, initialized, fallbackPanels, disposed,
                  scrolls, lastScroll >>

\* A traversal that disposes the geometries and forgets the materials.
TraverseDisposeGeometries(sc) ==
  IF sc.created THEN {<<o, "geometry">> : o \in sc.children} ELSE {}

\* What scene.traverse disposes: the geometry and the material of every
\* object of the scene that has them.
TraverseDispose(sc) ==
  IF sc.created
  THEN {Geometry(o) : o \in sc.children \cap Meshes}
       \cup {Material(o) : o \in sc.children \cap Meshes}
  ELSE {}

\* renderer.dispose() and renderer.domElement.remove().
DisposeRenderer(r) ==
  IF r.state = "null" THEN r
  ELSE [r EXCEPT !.state = "disposed", !.canvasMounted = FALSE]

\* The subscriptions destroy() leaves: it removes no listener.
ListenersAfterDestroy(ls) == ls

\* The body of destroy(): pause(), dispose the renderer, traverse the scene.
DestroyBody ==
  /\ SetFrameState(CancelFrame(FrameState))
  /\ renderer' = DisposeRenderer(renderer)
  /\ disposed' = disposed \cup TraverseDispose(scene)
                          \cup (IF renderer.state = "null" THEN {}
                                ELSE {<<"renderer", "context">>})
  /\ listeners' = ListenersAfterDestroy(listeners)
  /\ lifecycle' = "DESTROYED"
  /\ pauseSnap' = Disturb(pauseSnap, "DESTROYED")
  /\ UNCHANGED << api, storage, registry, constructed, webglSupported, initFault, viewport, hidden,
                  scene, camera, octahedron, cube, scrollProgress,
                  initialized, fallbackPanels, scrolls, lastScroll >>

\* destroy(), called on the instance.
Destroy ==
  /\ constructed
  /\ DestroyBody

\* beforeunload: destroy window.farmbridgeViz if there is one.
BeforeUnload ==
  /\ "beforeunload" \in listeners
  /\ constructed
  /\ DestroyBody

\* ------------------------------------------------------------------- Next

Next ==
  \/ \E fault \in InitFaults, ps \in [1..NumParticles -> InitialParticles] :
       Construct(fault, ps)
  \/ \E overflow \in Overflows :
       \E scrollY \in ScrollOffsets(overflow) : Scroll(overflow, scrollY)
  \/ \E vp \in Viewports : Resize(vp)
  \/ \E id \in pendingFrames, fault \in FrameFaults : Frame(id, fault)
  \/ Pause
  \/ \E fault \in FrameFaults : Resume(fault)
  \/ \E fault \in FrameFaults : VisibilityChange(fault)
  \/ Destroy
  \/ BeforeUnload

Spec == Init /\ [][Next]_vars

\* ------------------------------------------------------- calls of the API

\* API.get, post, put or delete: request with retries = 0.
ApiRequest(data) ==
  /\ api.pc \in {"idle", "returned", "threw"}
  /\ api.calls < MaxCalls
  /\ api' = [NoCall EXCEPT !.pc = "fetching", !.data = data,
                           !.calls = api.calls + 1]
  /\ UNCHANGED << vizVars, storage, registry >>

\* The fetch of the attempt in progress settles and the body of request
\* runs to its return, its throw or its retry delay.
ApiAttempt(outcome) ==
  /\ api.pc = "fetching"
  /\ api' = RequestAttempt(api, outcome)
  /\ UNCHANGED << vizVars, storage, registry >>

\* The timer of CONFIG.retryDelay fires.
ApiRetryDelay ==
  /\ api.pc = "waiting"
  /\ api' = RetryCall(api)
  /\ UNCHANGED << vizVars, storage, registry >>

ApiSettles == \E outcome \in FetchOutcomes : ApiAttempt(outcome)

ApiNext ==
  \/ \E data \in DataKinds : ApiRequest(data)
  \/ \E outcome \in FetchOutcomes : ApiAttempt(outcome)
  \/ ApiRetryDelay

\* The host settles every fetch and fires every timer.
ApiSpec ==
  Init /\ [][ApiNext]_vars /\ WF_vars(ApiSettles) /\ WF_vars(ApiRetryDelay)

\* ------------------------------------------------------ calls of Storage

\* Storage.set(key, value, expiryMinutes).
Set(key, value, expiryMinutes) ==
  /\ storage' =
       [storage EXCEPT
          !.items = StorageSet(storage.items, storage.clock, key, value,
                               expiryMinutes),
          !.written[key] = [value |-> value, minutes |-> expiryMinutes,
                            at |-> storage.clock, made |-> TRUE],
          !.nulled = @ \ {key},
          !.last = NoRead]
  /\ UNCHANGED << vizVars, api, registry >>

\* Storage.get(key).
Get(key) ==
  /\ LET got == StorageGet(storage.items, storage.clock, key)
     IN  storage' =
           [storage EXCEPT
              !.items = got.items,
              !.nulled = IF got.result = "null" /\ storage.written[key].made
                         THEN @ \cup {key} ELSE @,
              !.last = [key |-> key, result |-> got.result]]
  /\ UNCHANGED << vizVars, api, registry >>

\* Storage.remove(key).
Remove(key) ==
  /\ storage' =
       [storage EXCEPT
          !.items = StorageRemove(storage.items, key),
          !.written[key] = NoWrite,
          !.nulled = @ \ {key},
          !.last = NoRead]
  /\ UNCHANGED << vizVars, api, registry >>

\* A minute passes.
ClockTick ==
  /\ storage.clock < MaxClock
  /\ storage' = [storage EXCEPT !.clock = @ + 1, !.last = NoRead]
  /\ UNCHANGED << vizVars, api, registry >>

StorageNext ==
  \/ \E key \in StorageKeys, value \in StoredValues, m \in ExpiryMinutes :
       Set(key, value, m)
  \/ \E key \in StorageKeys : Get(key)
  \/ \E key \in StorageKeys : Remove(key)
  \/ ClockTick

StorageSpec == Init /\ [][StorageNext]_vars

\* ------------------------------------------------- calls of EventManager

\* EventManager.on(element, event, handler) with a new handler.
On(element, event) ==
  /\ registry.handlers < MaxHandlers
  /\ registry' = EventOn(registry, element, event)
  /\ UNCHANGED << vizVars, api, storage >>

\* EventManager.off(element, event).
Off(element, event) ==
  /\ registry' = EventOff(registry, element, event)
  /\ UNCHANGED << vizVars, api, storage >>

\* EventManager.delegate(parent, event, selector, handler): on with a new
\* wrapper of the handler.
Delegate(parent, event) ==
  /\ registry.handlers < MaxHandlers
  /\ registry' = EventDelegate(registry, parent, event)
  /\ UNCHANGED << vizVars, api, storage >>

EventNext ==
  \/ \E el \in Elements \cup {NullElement}, ev \in EventTypes : On(el, ev)
  \/ \E el \in Elements \cup {NullElement}, ev \in EventTypes : Off(el, ev)
  \/ \E el \in Elements \cup {NullElement}, ev \in EventTypes :
       Delegate(el, ev)

EventSpec == Init /\ [][EventNext]_vars

\* ------------------------------------------------------------ camera rig

\* Pages for the camera rig: their scrollable overflow.
RigOverflows == {400, 1000}

\* Offsets that give the progress values 0, 1/8, ..., 1, and one above the
\* top and one below the bottom of the page.
RigOffsets(overflow) ==
  {(k * overflow) \div 8 : k \in 0..9} \cup {-(overflow \div 4)}

\* A scroll event of the camera-rig specification.
RigScroll(overflow, scrollY) ==
  /\ scrolls < MaxRigScrolls
  /\ ScrollHandler(overflow, scrollY)

\* The scene is built without a throw and then only scrolled.
RigNext ==
  \/ \E ps \in [1..NumParticles -> InitialParticles] : Construct("none", ps)
  \/ \E overflow \in RigOverflows :
       \E scrollY \in RigOffsets(overflow) : RigScroll(overflow, scrollY)

RigSpec == Init /\ [][RigNext]_vars

\* ----------------------------------------------------------- render loop

\* The host runs a pending frame request of the render-loop specification.
LoopFrame(id, fault) ==
  /\ nextFrameId <= MaxLoopFrames
  /\ FrameCallback(id, fault)

LoopTick == \E id \in pendingFrames, fault \in FrameFaults : LoopFrame(id, fault)

\* The scene is built without a throw; the page stays visible and the host
\* runs the frame requests, any of which may throw.
LoopNext ==
  \/ \E ps \in [1..NumParticles -> InitialParticles] : Construct("none", ps)
  \/ \E id \in pendingFrames, fault \in FrameFaults : LoopFrame(id, fault)

\* A visible page runs every frame request it holds.
LoopSpec == Init /\ [][LoopNext]_vars /\ WF_vars(LoopTick)

\* ------------------------------------------------------------- properties

\* The position and rotation of a camera (its aspect ratio left out).
CameraPose(cam) == << cam.rx, cam.ry, cam.px, cam.py, cam.pz >>

\* The instance came out of init() ACTIVE: every step ran and none threw.
WasActive == initialized /\ initFault = "none"

\* The rotation of a decorative object.
Rotation(m) == << m.rx, m.ry, m.rz >>

\* C1: when isWebGLSupported() returned false, no scene, camera, renderer,
\* particle field or decorative object is ever constructed, no frame is ever
\* requested, and exactly one fallback panel is mounted, in every state of
\* the instance.
C1_UnsupportedBuildsNothing ==
  (constructed /\ ~webglSupported) =>
    /\ ~scene.created
    /\ ~camera.created
    /\ renderer.state = "null"
    /\ ~particleSystem.created /\ positions = <<>> /\ velocities = <<>>
    /\ ~torus.created /\ ~octahedron.created /\ ~cube.created
    /\ nextFrameId = 1 /\ pendingFrames = {} /\ animationId = 0
    /\ fallbackPanels = 1

\* C1 witness: an unsupported instance that has been through a resize, a
\* return from the hidden state (a resume) and a destroy.
C1_Witness ==
  /\ constructed /\ ~webglSupported
  /\ lifecycle = "DESTROYED" /\ ~hidden /\ viewport # <<800, 600>>
  /\ fallbackPanels = 1

\* C2: when a step of init(), up to the first animate() call, throws, the
\* fallback panel is mounted and from then on no frame request is pending and
\* no frame tick runs (the only animate() call is the one that threw).
C2_InitFailureStopsFrames ==
  (constructed /\ initFault # "none") =>
    /\ fallbackPanels = 1
    /\ pendingFrames = {}
    /\ nextFrameId <= 2

\* C3: while the instance is PAUSED no frame request is pending and the
\* scene state (particles, decorative objects, camera pose) is the one the
\* pause found.
C3_PausedIsFrozen ==
  lifecycle = "PAUSED" =>
    /\ pendingFrames = {}
    /\ pauseSnap.valid
    /\ positions = pauseSnap.positions
    /\ velocities = pauseSnap.velocities
    /\ particleSystem = pauseSnap.points
    /\ torus = pauseSnap.torus
    /\ octahedron = pauseSnap.octahedron
    /\ cube = pauseSnap.cube
    /\ CameraPose(camera) = CameraPose(pauseSnap.camera)

\* C4: right after pause() then resume() on an ACTIVE instance, with nothing
\* in between, every particle position and every decorative-object rotation
\* has the value it had before the pause.
C4_PauseResumeKeepsScene ==
  (pauseSnap.valid /\ pauseSnap.since = "resume") =>
    /\ positions = pauseSnap.positions
    /\ Rotation(torus) = Rotation(pauseSnap.torus)
    /\ Rotation(octahedron) = Rotation(pauseSnap.octahedron)
    /\ Rotation(cube) = Rotation(pauseSnap.cube)

\* C5: once destroy() has run on an instance that was ACTIVE, no step leaves
\* a frame request pending, runs animate() again, or makes the instance
\* anything but DESTROYED.
C5_DestroyedStaysStopped ==
  [][(lifecycle = "DESTROYED" /\ WasActive) =>
       /\ pendingFrames' = {}
       /\ nextFrameId' = nextFrameId
       /\ lifecycle' = "DESTROYED"]_vars

\* C6: after destroy() on an instance that was ACTIVE no handler is
\* subscribed to the scroll, resize, visibility-change or page-teardown
\* signal.
C6_DestroyDetachesListeners ==
  (lifecycle = "DESTROYED" /\ WasActive) =>
    listeners \cap {"scroll", "resize", "visibilitychange", "beforeunload"}
      = {}

\* C7: after destroy() on an initialized instance the renderer is disposed,
\* its canvas is out of the document, and the geometry and the material of
\* the particle system, the ring, the solid and the cube are disposed.
C7_DestroyReleasesResources ==
  (lifecycle = "DESTROYED" /\ initialized) =>
    /\ renderer.state = "disposed"
    /\ ~renderer.canvasMounted
    /\ Meshes \subseteq scene.children
    /\ \A o \in Meshes : Geometry(o) \in disposed /\ Material(o) \in disposed

\* C7 witness: an instance whose init() succeeded, destroyed.
C7_Witness ==
  /\ lifecycle = "DESTROYED" /\ initialized /\ initFault = "none"
  /\ renderer.state = "disposed"

\* C8: in every state of an ACTIVE instance that has run a frame tick the
\* camera pose is the Camera Rig's for the current scrollProgress
\* (position.z = 50 + 100 * (1 - scrollProgress)), also before any scroll.
C8_CameraFollowsProgress ==
  (lifecycle = "ACTIVE" /\ nextFrameId > 1) =>
    /\ camera.pz = 500000 + 1000 * (1000 - scrollProgress)
    /\ camera.rx = (6 * scrollProgress) \div 10
    /\ camera.ry = scrollProgress
    /\ camera.px = 20 * SinTurn(scrollProgress)
    /\ camera.py = 20 * CosTurn(scrollProgress)

\* C9: a position component that is beyond +-100 before an update of the
\* particles is within +-100 after it.
C9_OvershootLastsOneFrame ==
  [][\A i \in DOMAIN positions : \A a \in 1..3 :
       (Abs(positions[i][a]) > 1000000 /\ positions' # positions)
         => Abs(positions'[i][a]) <= 1000000]_vars

\* C10: after a scroll event scrollProgress is in [0, 1]; it is
\* scrollY / (scrollHeight - innerHeight) when that height is positive and 0
\* when it is not.
C10_ProgressInUnitRange ==
  lastScroll.seen =>
    /\ scrollProgress >= 0 /\ scrollProgress <= 1000
    /\ lastScroll.overflow > 0 =>
         scrollProgress * lastScroll.overflow = lastScroll.scrollY * 1000
    /\ lastScroll.overflow <= 0 => scrollProgress = 0

\* scrollProgress is in [0, 1] in the state after a step.
InUnitAfter == scrollProgress' >= 0 /\ scrollProgress' <= 1000

\* C11: for every progress in [0, 1] the z the scroll handler gives the
\* camera is in [50, 150], and of two such progress values the larger gets
\* the strictly smaller z.
C11_ZoomBoundedAndDecreasing ==
  [][(lastScroll'.seen /\ InUnitAfter) =>
       /\ camera'.pz >= 500000 /\ camera'.pz <= 1500000
       /\ (lastScroll.seen /\ scrollProgress >= 0 /\ scrollProgress <= 1000) =>
            /\ scrollProgress < scrollProgress' => camera'.pz < camera.pz
            /\ scrollProgress' < scrollProgress => camera.pz < camera'.pz]_vars

\* C11 witness: a second scroll event has taken the page from the top
\* (z = 150) to the bottom (z = 50).
C11_Witness ==
  /\ scrolls = 2 /\ lastScroll.seen
  /\ scrollProgress = 1000 /\ camera.pz = 500000
  /\ octahedron.py = 424000

\* C12, as stated: at progress 0 the scroll handler gives the camera the
\* rotation (0, 0) and the position (0, 0, 150).
C12_RigAtZeroAsStated ==
  (lastScroll.seen /\ scrollProgress = 0) =>
    CameraPose(camera) = << 0, 0, 0, 0, 1500000 >>

\* C12, amended: at progress 0 the scroll handler gives the camera the
\* rotation (0, 0) and the position (0, 20, 150): position.y is cos(0) * 20.
C12_RigAtZero ==
  (lastScroll.seen /\ scrollProgress = 0) =>
    CameraPose(camera) = << 0, 0, 0, 200000, 1500000 >>

\* C12 witness: a scroll event at the top of a scrollable page.
C12_Witness ==
  /\ lastScroll.seen /\ lastScroll.overflow = 400 /\ lastScroll.scrollY = 0
  /\ scrollProgress = 0 /\ camera.pz = 1500000

\* C13: a velocity component that was flipped when its position crossed
\* the +-100 boundary is not flipped again by a later update in which the
\* position is still beyond the boundary.
C13_OneFlipPerCrossing ==
  [][\A i \in DOMAIN positions : \A a \in 1..3 :
       (/\ Abs(positions[i][a]) > 1000000
        /\ positions' # positions
        /\ Abs(positions'[i][a]) > 1000000)
         => velocities'[i][a] * velocities[i][a] >= 0]_vars

\* A step is a completed frame tick of an ACTIVE instance with its objects.
CompletedTick ==
  /\ lifecycle = "ACTIVE" /\ lifecycle' = "ACTIVE"
  /\ octahedron.created
  /\ renderCalls' = renderCalls + 1

\* No rotation component of m is smaller after the step than before.
RotationGrows(m, n) == \A k \in 1..3 : Rotation(n)[k] >= Rotation(m)[k]

\* C14: every frame tick of an ACTIVE instance adds its idle increment to
\* the rotation of the ring, the solid and the cube, and no step decreases a
\* rotation of the three.
C14_TickRotatesAllThree ==
  [][/\ CompletedTick =>
          /\ Rotation(torus') =
               << torus.rx + 10, torus.ry + 20, torus.rz >>
          /\ Rotation(octahedron') =
               << octahedron.rx + 30, octahedron.ry + 50, octahedron.rz >>
          /\ Rotation(cube') = << cube.rx + 20, cube.ry, cube.rz + 40 >>
     /\ (octahedron.created /\ octahedron'.created) =>
          /\ RotationGrows(torus, torus')
          /\ RotationGrows(octahedron, octahedron')
          /\ RotationGrows(cube, cube')]_vars

\* C15: in every state of an initialized instance the cube's y is
\* -50 + 100 * scrollProgress and the ring's x and y are its scroll rule at
\* scrollProgress.
C15_PositionsFollowProgress ==
  (initialized /\ cube.created) =>
    /\ cube.py = -500000 + 1000 * scrollProgress
    /\ torus.px = ParallaxTorus(torus, scrollProgress).px
    /\ torus.py = ParallaxTorus(torus, scrollProgress).py

\* C16: a frame tick at constant scrollProgress moves the solid's y towards
\* progress * 100 by a tenth of the gap.
C16_TickEasesSolid ==
  [][(CompletedTick /\ scrollProgress' = scrollProgress) =>
       octahedron'.py = ParallaxOctahedron(octahedron, scrollProgress).py]_vars

\* A step runs a frame callback that throws: a pending request is consumed
\* and nothing is rendered.
ThrowingTick ==
  /\ WasActive /\ lifecycle = "ACTIVE" /\ lifecycle' = "ACTIVE"
  /\ \E id \in pendingFrames : id \notin pendingFrames'
  /\ renderCalls' = renderCalls

\* C17: a frame tick of an ACTIVE instance that throws leaves a new frame
\* request outstanding, and while a request is outstanding after a throw a
\* later tick runs.
C17_ThrowKeepsLoop ==
  /\ [][ThrowingTick =>
          /\ animationId' \in pendingFrames'
          /\ animationId' \notin pendingFrames]_vars
  /\ \A n \in 1..MaxLoopFrames :
       (WasActive /\ nextFrameId = n /\ renderCalls < n - 1)
         ~> (nextFrameId > n)

\* C17 witness: the second tick threw and the third is scheduled.
C17_Witness ==
  /\ WasActive /\ lifecycle = "ACTIVE" /\ ~hidden
  /\ nextFrameId = 3 /\ renderCalls = 1
  /\ pendingFrames = {2} /\ animationId = 2

\* C18: velocities change only in a step that runs a frame callback, and
\* then an x or z component keeps its magnitude and a y component is the
\* old one, flipped or not, less 0.0001.
C18_VelocitiesChangeOnlyInTick ==
  [][(velocities # << >> /\ velocities' # velocities) =>
       /\ \E id \in pendingFrames : id \notin pendingFrames'
       /\ \A i \in DOMAIN velocities :
            /\ Abs(velocities'[i][1]) = Abs(velocities[i][1])
            /\ Abs(velocities'[i][3]) = Abs(velocities[i][3])
            /\ velocities'[i][2] \in
                 {velocities[i][2] - 1, -velocities[i][2] - 1}]_vars

\* C19: at most one frame request is outstanding.
C19_OneOutstandingRequest == Cardinality(pendingFrames) <= 1

\* The attempts of the call before the last one.
EarlierAttempts == 1..(Len(api.log) - 1)

\* C20: a call of API.request makes at most 4 fetch attempts and ends; it
\* returns the body of the first attempt that succeeds, makes no attempt
\* after a success, and throws the error of the last attempt when all fail.
C20_RequestRetriesAreBounded ==
  /\ [](/\ api.fetches <= 4 /\ Len(api.log) <= 4
        /\ \A i \in EarlierAttempts : api.log[i].kind # "ok"
        /\ api.pc = "returned" =>
             /\ Len(api.log) >= 1
             /\ api.log[Len(api.log)].kind = "ok"
             /\ api.result = << Len(api.log), api.log[Len(api.log)].val >>
        /\ api.pc = "threw" =>
             /\ Len(api.log) = 4
             /\ api.log[4].kind # "ok"
             /\ api.error = << 4, api.log[4].kind >>
        /\ (Len(api.log) >= 1 /\ api.log[Len(api.log)].kind = "ok") =>
             api.pc = "returned")
  /\ (api.pc = "fetching") ~> (api.pc \in {"returned", "threw"})

\* C20 witness: four fetch attempts failed and the call threw the error of
\* the fourth.
C20_Witness ==
  /\ api.pc = "threw" /\ api.fetches = 4
  /\ api.log[1].kind = "network" /\ api.log[3].kind = "status"
  /\ api.error = << 4, "parse" >>

\* The expiry time of a set: its time plus its minutes.
ExpiryOf(w) == w.at + w.minutes

\* The clock has passed the expiry time of the last set of key.
PastExpiry(key) ==
  /\ storage.written[key].minutes > 0
  /\ storage.clock > ExpiryOf(storage.written[key])

\* C21: a read of a key that was set returns the value set unless the set
\* had an expiry time and the clock has passed it, and then it returns null;
\* once a read has returned null the key is gone, and stays so until it is
\* set again; a key set without expiry is never read as null.
C21_EntriesExpireOnTime ==
  /\ \A k \in StorageKeys :
       (storage.last.key = k /\ storage.written[k].made) =>
         IF PastExpiry(k)
         THEN storage.last.result = "null" /\ k \in storage.nulled
         ELSE storage.last.result = storage.written[k].value
  /\ \A k \in storage.nulled :
       /\ PastExpiry(k)
       /\ storage.items[k] = NoItem
       /\ StorageGet(storage.items, storage.clock, k).result = "null"

\* C21 witness: k1 was set for one minute at time 0 and read at time 2; the
\* read returned null and removed the key, while k2, set without expiry at
\* time 0, is still stored.
C21_Witness ==
  /\ storage.written["k1"] =
       [value |-> "v1", minutes |-> 1, at |-> 0, made |-> TRUE]
  /\ storage.clock = 2
  /\ storage.last = [key |-> "k1", result |-> "null"]
  /\ storage.items["k1"] = NoItem
  /\ storage.written["k2"].made /\ storage.written["k2"].minutes = 0
  /\ storage.items["k2"] # NoItem

\* C22: every listener an element holds, attached through on and not
\* removed, is recorded in the listeners map under the key of its element
\* and event.
C22_RegistryTracksListeners ==
  \A l \in registry.dom :
    registry.listeners[ListenerKey(l[1], l[2])] =
      [element |-> l[1], event |-> l[2], handler |-> l[3]]

=============================================================================
